---- MODULE Spec2Model ----
(***************************************************************************)
(* Model of src/grammar.js: the grammar rule let_declaration(tokens).      *)
(*                                                                         *)
(*   let_declaration: function(tokens) {                                   *)
(*     let expression = [tokens.shift()];                                  *)
(*     do {                                                                *)
(*       token = tokens.shift();                                           *)
(*       expression.push(token);                                           *)
(*     } while (!["EOF", "\n"].includes(token));                           *)
(*     return { type: "let_declaration", name: "x", value: 5 };            *)
(*   }                                                                     *)
(*                                                                         *)
(* The file is a sloppy-mode CommonJS module, so the undeclared            *)
(* assignment `token = ...` writes a property of the global object that    *)
(* survives the call.  Array.prototype.shift on an empty array returns     *)
(* undefined and leaves the array empty.                                   *)
(***************************************************************************)
EXTENDS Integers, Sequences, FiniteSets, TLC

\* ------------------------------------------------------------------ bounds
\* longest token stream handed to the first call
MaxLen == 5
\* number of successive calls the host makes on the same stream
MaxCalls == 2
\* number of `undefined` values one call can push before the engine gives up
\* growing `expression` (scaled down from the engine's array and heap limits)
MaxUndefined == 3

\* ------------------------------------------------------------- token kinds
\* the literal array ["EOF", "\n"] of the loop condition
Terminators == {"EOF", "\n"}

\* kinds the tokenizer may put on the stream
Kinds == {"let", "x"} \cup Terminators

\* the value shift() yields on an empty array
undefined == "undefined"

\* value of the global `token` before any call has assigned it
Undeclared == "undeclared"

\* caller's result slot before the call has returned
NoNode == [type |-> "none", name |-> "", value |-> 0]

Streams == UNION {[1..n -> Kinds] : n \in 0..MaxLen}

\* ------------------------------------------------------------------- state
\* tokens: the caller-owned array passed as `tokens`
\* expression: the local array `expression`
\* token: the implicit global `token`
\* node: the value returned to the caller
\* pc: position of the call
\* entry: history, the stream as it was at each call's entry
VARIABLES tokens, expression, token, node, pc, entry

vars == <<tokens, expression, token, node, pc, entry>>

\* --------------------------------------------------- Array.prototype.shift
ShiftValue(s) == IF s = <<>> THEN undefined ELSE Head(s)

ShiftRest(s) == IF s = <<>> THEN <<>> ELSE Tail(s)

RECURSIVE NumUndefined(_)
NumUndefined(s) ==
    IF s = <<>> THEN 0
    ELSE (IF Head(s) = undefined THEN 1 ELSE 0) + NumUndefined(Tail(s))

\* ------------------------------------------------------------------ actions
Init ==
    /\ tokens \in Streams
    /\ expression = <<>>
    /\ token = Undeclared
    /\ node = NoNode
    /\ pc = "Idle"
    /\ entry = <<>>

\* the host invokes let_declaration(tokens)
let_declaration ==
    /\ pc \in {"Idle", "Done"}
    /\ Len(entry) < MaxCalls
    /\ entry' = Append(entry, tokens)
    /\ expression' = <<>>
    /\ node' = NoNode
    /\ pc' = "ConsumingHead"
    /\ UNCHANGED <<tokens, token>>

\* a loop test that forgets the newline terminator
Continue_EofOnly(t) == t # "EOF"

\* the loop test  !["EOF", "\n"].includes(token)
Continue(t) == t \notin Terminators

\* a head step that tests the head against the terminators
ShiftHead_Tested ==
    /\ pc = "ConsumingHead"
    /\ expression' = <<ShiftValue(tokens)>>
    /\ tokens' = ShiftRest(tokens)
    /\ pc' = IF Continue(ShiftValue(tokens)) THEN "ConsumingBody" ELSE "Return"
    /\ UNCHANGED <<token, node, entry>>

\* let expression = [tokens.shift()];
ShiftHead ==
    /\ pc = "ConsumingHead"
    /\ expression' = <<ShiftValue(tokens)>>
    /\ tokens' = ShiftRest(tokens)
    /\ pc' = "ConsumingBody"
    /\ UNCHANGED <<token, node, entry>>

\* a loop body that rejects a repeated "let" by ending the match
LoopBody_StopAtLet ==
    /\ pc = "ConsumingBody"
    /\ tokens # <<>> \/ NumUndefined(expression) < MaxUndefined
    /\ token' = ShiftValue(tokens)
    /\ tokens' = ShiftRest(tokens)
    /\ expression' = Append(expression, token')
    /\ pc' = IF Continue(token') /\ token' # "let" THEN "ConsumingBody" ELSE "Return"
    /\ UNCHANGED <<node, entry>>

\* a while loop instead of do-while: the test runs before the first shift
LoopBody_TestFirst ==
    /\ pc = "ConsumingBody"
    /\ tokens # <<>> \/ NumUndefined(expression) < MaxUndefined
    /\ IF Continue(token)
       THEN /\ token' = ShiftValue(tokens)
            /\ tokens' = ShiftRest(tokens)
            /\ expression' = Append(expression, token')
            /\ pc' = "ConsumingBody"
       ELSE /\ pc' = "Return"
            /\ UNCHANGED <<token, tokens, expression>>
    /\ UNCHANGED <<node, entry>>

\* a loop body that peeks at the front token and pushes it without removing it
\* when it is a terminator
LoopBody_KeepTerminator ==
    /\ pc = "ConsumingBody"
    /\ tokens # <<>> \/ NumUndefined(expression) < MaxUndefined
    /\ token' = ShiftValue(tokens)
    /\ tokens' = IF Continue(token') THEN ShiftRest(tokens) ELSE tokens
    /\ expression' = Append(expression, token')
    /\ pc' = IF Continue(token') THEN "ConsumingBody" ELSE "Return"
    /\ UNCHANGED <<node, entry>>

\* a loop body that uses unshift instead of push on the accumulator
LoopBody_Prepend ==
    /\ pc = "ConsumingBody"
    /\ tokens # <<>> \/ NumUndefined(expression) < MaxUndefined
    /\ token' = ShiftValue(tokens)
    /\ tokens' = ShiftRest(tokens)
    /\ expression' = <<token'>> \o expression
    /\ pc' = IF Continue(token') THEN "ConsumingBody" ELSE "Return"
    /\ UNCHANGED <<node, entry>>

\* one iteration of  do { token = tokens.shift(); expression.push(token); }
\* while (!["EOF", "\n"].includes(token));
LoopBody ==
    /\ pc = "ConsumingBody"
    /\ tokens # <<>> \/ NumUndefined(expression) < MaxUndefined
    /\ token' = ShiftValue(tokens)
    /\ tokens' = ShiftRest(tokens)
    /\ expression' = Append(expression, token')
    /\ pc' = IF Continue(token') THEN "ConsumingBody" ELSE "Return"
    /\ UNCHANGED <<node, entry>>

\* a node whose name is taken from the consumed tokens
Node_FromTokens(e) ==
    [type |-> "let_declaration", name |-> IF Len(e) >= 2 THEN e[2] ELSE "x", value |-> 5]

\* the object literal of the return statement
Node(e) == [type |-> "let_declaration", name |-> "x", value |-> 5]

\* return { type: "let_declaration", name: "x", value: 5 };
Return ==
    /\ pc = "Return"
    /\ node' = Node(expression)
    /\ pc' = "Done"
    /\ UNCHANGED <<tokens, expression, token, entry>>

\* expression.push(token) once `expression` cannot grow any further: the
\* loop on an exhausted stream pushes undefined without end, so the engine
\* either throws RangeError (invalid array length) out of the call or aborts
\* the process on heap exhaustion
PushLimit ==
    /\ pc = "ConsumingBody"
    /\ tokens = <<>>
    /\ NumUndefined(expression) >= MaxUndefined
    /\ token' = ShiftValue(tokens)
    /\ pc' \in {"RangeError", "Aborted"}
    /\ UNCHANGED <<tokens, expression, node, entry>>

Next == let_declaration \/ ShiftHead \/ LoopBody \/ PushLimit \/ Return

Spec == Init /\ [][Next]_vars

\* the call runs to completion once started: synchronous, never suspended
FairSpec == Spec /\ WF_vars(Next)

\* ------------------------------------------------------- auxiliary notions
\* the stream as the running (or last) call received it
origCall == IF entry = <<>> THEN <<>> ELSE entry[Len(entry)]

\* position of the first terminator after the head, 0 when there is none
FirstTerm(s) ==
    IF \E k \in 2..Len(s) : s[k] \in Terminators
    THEN CHOOSE k \in 2..Len(s) :
             /\ s[k] \in Terminators
             /\ \A j \in 2..(k - 1) : s[j] \notin Terminators
    ELSE 0

\* what is left of s behind its first declaration
DropDecl(s) == SubSeq(s, FirstTerm(s) + 1, Len(s))

\* the k-th call has returned
Returned(k) == Len(entry) > k \/ (Len(entry) = k /\ pc = "Done")

\* the stream as the k-th call left it
StreamAfter(k) == IF Len(entry) > k THEN entry[k + 1] ELSE tokens

\* number of tokens the running (or last) call has removed from the stream
Removed == Len(origCall) - Len(tokens)

\* ------------------------------------------------------------------ claims

\* C1: on a stream [head, t1..tn, terminator, ...rest] with no terminator
\* among t1..tn, a call that has returned has removed exactly the n+2 tokens
\* head, t1..tn, terminator and the stream equals rest, whatever terminators
\* rest holds.
C1_ConsumesThroughFirstTerminator ==
    (pc = "Done" /\ FirstTerm(origCall) # 0) =>
        /\ Removed = FirstTerm(origCall)
        /\ expression = SubSeq(origCall, 1, FirstTerm(origCall))
        /\ tokens = DropDecl(origCall)

C1_Witness ==
    /\ pc = "Done"
    /\ FirstTerm(origCall) >= 3
    /\ tokens # <<>>
    /\ \E i \in 1..Len(tokens) : tokens[i] \in Terminators

\* C2: on a stream with a head and no terminator after it, the call fails
\* with StreamExhausted as soon as a shift finds the stream empty.
C2_FailsWithStreamExhausted ==
    (/\ Len(origCall) >= 1
     /\ FirstTerm(origCall) = 0
     /\ NumUndefined(expression) > 0) => pc = "Failed"

\* C3: every call that is started eventually reaches a terminal state,
\* Done or Failed.
C3_Terminates == (pc = "ConsumingHead") ~> (pc \in {"Done", "Failed"})

\* C4: whenever a call has returned, the node is exactly
\* {type: "let_declaration", name: "x", value: 5}, whatever was consumed.
C4_FixedNode ==
    pc = "Done" => node = [type |-> "let_declaration", name |-> "x", value |-> 5]

C4_Witness ==
    /\ pc = "Done"
    /\ Len(entry) = 2
    /\ Len(expression) >= 3
    /\ expression[2] = "let"
    /\ entry[1] # entry[2]

\* C5: on a stream D1 ++ D2 ++ rest of two well-formed declarations, two
\* successive calls leave D2 ++ rest and then rest: each declaration is
\* consumed exactly once, in order.
C5_TwoCallsInOrder ==
    (/\ Returned(2)
     /\ FirstTerm(entry[1]) # 0
     /\ FirstTerm(DropDecl(entry[1])) # 0) =>
        /\ StreamAfter(1) = DropDecl(entry[1])
        /\ StreamAfter(2) = DropDecl(DropDecl(entry[1]))
        /\ Len(entry[1]) - Len(StreamAfter(2))
               = FirstTerm(entry[1]) + FirstTerm(DropDecl(entry[1]))

C5_Witness ==
    /\ Returned(2)
    /\ FirstTerm(entry[1]) # 0
    /\ FirstTerm(DropDecl(entry[1])) # 0
    /\ StreamAfter(2) # <<>>

\* C6: a call that has returned has removed at least two tokens, and exactly
\* two when the second token of its stream is a terminator.
C6_AtLeastTwoRemoved ==
    pc = "Done" =>
        /\ Removed >= 2
        /\ (Len(origCall) >= 2 /\ origCall[2] \in Terminators) => Removed = 2

C6_Witness ==
    /\ pc = "Done"
    /\ Len(origCall) = 2
    /\ origCall[2] \in Terminators
    /\ Removed = 2

\* C7: no step of a call changes global state other than the stream; in
\* particular the global `token` is never written.
C7_NoGlobalWritten == [][token' = token]_vars

\* C8: the head is consumed once and never tested: right after the head is
\* removed the call is consuming body tokens, and when the head itself is a
\* terminator the call ends only at the first terminator at position 2 or
\* later.
C8_HeadNotTested ==
    /\ Len(expression) = 1 => pc = "ConsumingBody"
    /\ (/\ pc \in {"Return", "Done"}
        /\ origCall # <<>>
        /\ origCall[1] \in Terminators) =>
           /\ Len(expression) >= 2
           /\ Len(expression) = FirstTerm(origCall)
           /\ expression[1] = origCall[1]
           /\ tokens = DropDecl(origCall)

C8_Witness ==
    /\ pc = "Done"
    /\ origCall # <<>>
    /\ origCall[1] \in Terminators
    /\ Len(expression) >= 3

\* C9: a body token that is not a terminator is consumed without ending the
\* match, and a call on a stream with a terminator after the head never
\* fails nor runs the stream dry.
C9_BodyAcceptedStep ==
    /\ (pc = "ConsumingBody" /\ tokens # <<>> /\ Head(tokens) \notin Terminators) =>
           (pc' = "ConsumingBody" /\ tokens' = Tail(tokens))
    /\ (FirstTerm(origCall)' # 0) =>
           (pc' # "Failed" /\ NumUndefined(expression') = 0)

C9_BodyAccepted == [][C9_BodyAcceptedStep]_vars

C9_Witness ==
    /\ pc = "Done"
    /\ \E i \in 2..Len(expression) : expression[i] = "let"
    /\ \E i \in 2..Len(expression) : expression[i] = "x"

\* C10: as long as no shift has found the stream empty, expression followed
\* by the stream is the stream the call received; every step leaves the
\* stream alone or removes its front token.
C10_PrefixInv ==
    (entry # <<>> /\ NumUndefined(expression) = 0) =>
        expression \o tokens = origCall

C10_PrefixStep ==
    /\ C10_PrefixInv'
    /\ tokens' = tokens \/ (tokens # <<>> /\ tokens' = Tail(tokens))
    /\ Len(tokens') <= Len(tokens)

C10_PrefixConsumption == [][C10_PrefixStep]_vars

C10_Witness ==
    /\ pc = "ConsumingBody"
    /\ Len(expression) >= 3
    /\ NumUndefined(expression) = 0
    /\ tokens # <<>>

====
